---- MODULE Spec2Model ----
(***************************************************************************)
(* Operator algebra of pycsou (src/pycsou/abc/operator.py): the class      *)
(* hierarchy of operator kinds, the capability sets computed by            *)
(* Property.properties(), and the combinators +, *, **, squeeze and        *)
(* specialize, modelled on a heap of operator instances.                   *)
(*                                                                         *)
(* An instance is a record [kind, shape, lip, dlip, cst, attrs]; attrs is  *)
(* the instance dictionary of method attributes (what setattr attached),   *)
(* each value a term that says what the attached callable computes.        *)
(* A method an instance does not carry in attrs resolves in its class.     *)
(***************************************************************************)
EXTENDS Integers, Sequences, FiniteSets, TLC

VARIABLES heap, last

vars == <<heap, last>>

----------------------------------------------------------------------------
(* Bounds of the model. *)

\* largest codomain / domain size of a leaf operator
MaxDim == 2

\* largest finite Lipschitz bound a leaf operator is constructed with
MaxLip == 3

\* largest integer exponent handed to **
MaxPow == 3

----------------------------------------------------------------------------
(* Classes. *)

Mixins == {"Property", "SingledValued", "Apply", "Differential", "Gradient",
           "Adjoint", "Proximal"}

\* the classes of the hierarchy that users instantiate
LatticeKinds == {"Map", "DiffMap", "Func", "DiffFunc", "ProxFunc", "LinOp", "LinFunc",
                 "SquareOp", "NormalOp", "SelfAdjointOp", "PosDefOp", "UnitOp",
                 "ProjOp", "OrthProjOp"}

Kinds == LatticeKinds \cup {"HomothetyOp", "IdentityOperator"}

\* _base_operators (a frozenset: its iteration order is not fixed)
base_operators == {"Map", "DiffMap", "Func", "DiffFunc", "ProxFunc", "LinOp", "LinFunc"}

\* Method resolution order of each class (C3 linearisation of the class statements).
MRO_LinOp == <<"LinOp", "DiffMap", "Map", "Apply", "Differential", "Adjoint", "Property">>

MRO_SquareOp == <<"SquareOp">> \o MRO_LinOp

MRO_NormalOp == <<"NormalOp">> \o MRO_SquareOp

MRO_SelfAdjointOp == <<"SelfAdjointOp">> \o MRO_NormalOp

MRO(K) ==
  CASE K = "Property"      -> <<"Property">>
    [] K = "SingledValued" -> <<"SingledValued", "Property">>
    [] K = "Apply"         -> <<"Apply", "Property">>
    [] K = "Differential"  -> <<"Differential", "Property">>
    [] K = "Gradient"      -> <<"Gradient", "Differential", "Property">>
    [] K = "Adjoint"       -> <<"Adjoint", "Property">>
    [] K = "Proximal"      -> <<"Proximal", "Property">>
    [] K = "Map"           -> <<"Map", "Apply", "Property">>
    [] K = "DiffMap"       -> <<"DiffMap", "Map", "Apply", "Differential", "Property">>
    [] K = "Func"          -> <<"Func", "Map", "Apply", "SingledValued", "Property">>
    [] K = "ProxFunc"      -> <<"ProxFunc", "Func", "Map", "Apply", "SingledValued",
                                "Proximal", "Property">>
    [] K = "DiffFunc"      -> <<"DiffFunc", "Func", "Map", "Apply", "SingledValued",
                                "Gradient", "Differential", "Property">>
    [] K = "LinOp"         -> MRO_LinOp
    [] K = "LinFunc"       -> <<"LinFunc", "DiffFunc", "Func", "LinOp", "DiffMap", "Map",
                                "Apply", "SingledValued", "Gradient", "Differential",
                                "Adjoint", "Property">>
    [] K = "SquareOp"      -> MRO_SquareOp
    [] K = "NormalOp"      -> MRO_NormalOp
    [] K = "SelfAdjointOp" -> MRO_SelfAdjointOp
    [] K = "UnitOp"        -> <<"UnitOp">> \o MRO_NormalOp
    [] K = "ProjOp"        -> <<"ProjOp">> \o MRO_SquareOp
    [] K = "OrthProjOp"    -> <<"OrthProjOp", "ProjOp">> \o MRO_SelfAdjointOp
    [] K = "PosDefOp"      -> <<"PosDefOp">> \o MRO_SelfAdjointOp
    [] K = "HomothetyOp"   -> <<"HomothetyOp">> \o MRO_SelfAdjointOp
    [] K = "IdentityOperator" -> <<"IdentityOperator", "PosDefOp">> \o MRO_SelfAdjointOp

\* The names a class statement defines in its own body.
OwnAttrs(K) ==
  CASE K = "Property"      -> {"_property_list", "properties", "has", "__add__", "__mul__",
                               "__rmul__", "__pow__", "__neg__", "__sub__", "__truediv__",
                               "argscale", "argshift"}
    [] K = "SingledValued" -> {"single_valued"}
    [] K = "Apply"         -> {"__call__", "apply", "lipschitz"}
    [] K = "Differential"  -> {"diff_lipschitz", "jacobian"}
    [] K = "Gradient"      -> {"jacobian", "gradient"}
    [] K = "Adjoint"       -> {"adjoint"}
    [] K = "Proximal"      -> {"prox", "fenchel_prox"}
    [] K = "Map"           -> {"__init__", "shape", "dim", "codim", "squeeze", "_squeeze",
                               "lipschitz", "specialize"}
    [] K = "DiffMap"       -> {"__init__", "squeeze", "diff_lipschitz"}
    [] K = "Func"          -> {"__init__"}
    [] K = "ProxFunc"      -> {"__init__", "__add__", "__mul__", "argshift"}
    [] K = "DiffFunc"      -> {"__init__"}
    [] K = "LinOp"         -> {"__init__", "squeeze", "jacobian", "T", "svdvals", "asarray",
                               "__array__", "gram", "cogram", "pinv", "dagger"}
    [] K = "LinFunc"       -> {"__init__", "__add__"}
    [] K = "SquareOp"      -> {"__init__"}
    [] K = "NormalOp"      -> {"eigvals", "cogram"}
    [] K = "SelfAdjointOp" -> {"adjoint", "T"}
    [] K = "UnitOp"        -> {"__init__", "lipschitz", "pinv", "dagger"}
    [] K = "ProjOp"        -> {"__pow__"}
    [] K = "OrthProjOp"    -> {"__init__", "lipschitz", "pinv", "dagger"}
    [] K = "PosDefOp"      -> {}
    [] K = "HomothetyOp"   -> {"__init__", "apply", "adjoint", "__mul__"}
    [] K = "IdentityOperator" -> {"__init__"}

Range(s) == {s[i] : i \in DOMAIN s}

\* isinstance(x, C) for an instance x of class K
IsSubclass(K, C) == C \in Range(MRO(K))

\* dir(cls): every name some class of the MRO defines
Dir(K) == UNION {OwnAttrs(C) : C \in Range(MRO(K))}

\* the first class of the resolution order m whose body defines name
first_defining(m, name) ==
  m[CHOOSE j \in DOMAIN m :
      /\ name \in OwnAttrs(m[j])
      /\ \A k \in 1..(j - 1) : name \notin OwnAttrs(m[k])]

\* The class whose definition of name an instance of K runs.
Resolve(K, name) == first_defining(MRO(K), name)

\* a list of capabilities that leaves adjoint out
property_list_without_adjoint == {"apply", "_lipschitz", "jacobian", "_diff_lipschitz",
                                  "single_valued", "gradient", "prox"}

\* Property._property_list
property_list == {"apply", "_lipschitz", "jacobian", "_diff_lipschitz", "single_valued",
                  "gradient", "prox", "adjoint"}

\* Property.properties
properties(K) == Dir(K) \cap property_list

\* The elements of set("single_valued"): iterating a str yields its characters.
CharsOfSingleValued == {"s", "i", "n", "g", "l", "e", "_", "v", "a", "u", "d"}

\* Property.has(prop): set(prop) <= cls.properties()
has(K, prop) == prop \subseteq properties(K)

----------------------------------------------------------------------------
(* Values. *)

\* np.infty
Inf == [k |-> "inf", v |-> 0]

\* a field __init__ never set (reading it raises AttributeError)
Unset == [k |-> "unset", v |-> 0]

Fin(n) == [k |-> "fin", v |-> n]

\* np.abs
Abs(n) == IF n < 0 THEN 0 - n ELSE n

\* float addition and multiplication with np.infty
LipAdd(a, b) == IF a.k = "fin" /\ b.k = "fin" THEN Fin(a.v + b.v) ELSE Inf

LipMul(a, b) == IF a.k = "fin" /\ b.k = "fin" THEN Fin(a.v * b.v) ELSE Inf

\* the method attributes an instance dictionary can hold
MethodNames == {"apply", "jacobian", "single_valued", "gradient", "prox", "adjoint"}

\* What an attached callable computes; a, b are heap ids, p an attribute name.
\*   class          the class's own method p, bound to instance a
\*   sum            getattr(a, p)(arr) + getattr(b, p)(arr)
\*   comp_apply     a.apply(b.apply(arr))
\*   comp_adjoint   b.adjoint(a.adjoint(arr))
\*   comp_gradient  b.jacobian(arr).adjoint(a.gradient(b.apply(arr)))
\*   comp_jacobian  a.jacobian(b.apply(arr)) * b.jacobian(arr)
\*   flat_jacobian  a.jacobian(x).asarray().reshape(-1)
\*   prox_sum       a.prox(x - tau * b.asarray(), tau)
\*   prox_unit      b.adjoint(a.prox(b.apply(arr), tau))
\*   prox_homothety (1 / b._cst) * a.prox(b._cst * arr, tau * b._cst ** 2)
\*   prox_scaled    a.prox(arr, b._cst * tau)
Term(t, a, b, p) == [t |-> t, a |-> a, b |-> b, p |-> p]

NoAttr == Term("none", 0, 0, "")

NoAttrs == [m \in MethodNames |-> NoAttr]

Instance(K, shape, lip, dlip, cst) ==
  [kind |-> K, shape |-> shape, lip |-> lip, dlip |-> dlip, cst |-> cst, attrs |-> NoAttrs]

\* Operands of the combinators: an operator (a heap id), a Python int, a float
\* that is no integer, a class (the cast_to of specialize), or any other object
\* (None, a str: no shape attribute).
OpArg(x) == [k |-> "op", v |-> x, name |-> ""]

IntArg(n) == [k |-> "int", v |-> n, name |-> ""]

FloatArg == [k |-> "float", v |-> 0, name |-> ""]

OtherArg == [k |-> "other", v |-> 0, name |-> ""]

ClassArg(K) == [k |-> "class", v |-> 0, name |-> K]

NoArg == [k |-> "none", v |-> 0, name |-> ""]

\* isinstance(x, nb.Real)
IsReal(x) == x.k \in {"int", "float"}

\* isinstance(x, C) for an operand x
IsInstance(h, x, C) == x.k = "op" /\ IsSubclass(h[x.v].kind, C)

----------------------------------------------------------------------------
(* Outcomes: the heap after the call, the returned instance (0 when the    *)
(* call raised), the exception class and the raise statement it came from. *)

Ok(h, r) == [h |-> h, r |-> r, exc |-> "none", site |-> "none"]

Raise(h, exc, site) == [h |-> h, r |-> 0, exc |-> exc, site |-> site]

----------------------------------------------------------------------------
(* Constructors. Each yields [exc, site, inst]. *)

Built(inst) == [exc |-> "none", site |-> "none", inst |-> inst]

NotBuilt(exc, site) ==
  [exc |-> exc, site |-> site, inst |-> Instance("Map", <<>>, Inf, Unset, 0)]

\* Map.__init__
Map_init(K, shape) ==
  IF Len(shape) > 2
  THEN NotBuilt("NotImplementedError", "Map.__init__")
  ELSE Built(Instance(K, shape, Inf, Unset, 0))

\* the statements that follow a call of a base __init__ whose result is b:
\* skipped when the call raised
then_init(b, c) == IF b.exc # "none" THEN b ELSE c

\* self._diff_lipschitz = v, after the base __init__ of result b
set_diff_lipschitz(b, v) == then_init(b, Built([b.inst EXCEPT !.dlip = v]))

\* self._lipschitz = v, after the base __init__ of result b
set_lipschitz(b, v) == then_init(b, Built([b.inst EXCEPT !.lip = v]))

\* DiffMap.__init__
DiffMap_init(K, shape) == set_diff_lipschitz(Map_init(K, shape), Inf)

\* LinOp.__init__
LinOp_init(K, shape) == set_diff_lipschitz(DiffMap_init(K, shape), Fin(0))

\* super(Func, self).__init__(shape): the __init__ after Func in the MRO of K
Func_super_init(K, shape) ==
  IF IsSubclass(K, "LinOp") THEN LinOp_init(K, shape) ELSE Map_init(K, shape)

\* Func.__init__
Func_init(K, shape) ==
  IF Len(shape) # 1 /\ shape[1] > 1
  THEN NotBuilt("ValueError", "Func.__init__")
  ELSE Func_super_init(K, IF Len(shape) = 1 THEN <<1>> \o shape ELSE shape)

\* LinFunc.__init__: DiffFunc.__init__(self, shape); LinOp.__init__(self, shape)
LinFunc_init(K, shape) == then_init(Func_init(K, shape), LinOp_init(K, shape))

\* SquareOp.__init__
SquareOp_init(K, shape) ==
  IF Len(shape) > 1 /\ shape[1] # shape[2]
  THEN NotBuilt("ValueError", "SquareOp.__init__")
  ELSE LinOp_init(K, <<shape[1], shape[1]>>)

\* UnitOp.__init__ and OrthProjOp.__init__
UnitOp_init(K, shape) == set_lipschitz(SquareOp_init(K, shape), Fin(1))

\* _HomothetyOp.__init__, after the base __init__ of result b
HomothetyOp_fields(b, cst) ==
  then_init(b, Built([b.inst EXCEPT !.cst = cst, !.lip = Fin(Abs(cst)), !.dlip = Fin(0)]))

\* _HomothetyOp.__init__
HomothetyOp_init(cst, dim) ==
  IF ~IsReal(cst)
  THEN NotBuilt("ValueError", "_HomothetyOp.__init__")
  ELSE HomothetyOp_fields(SquareOp_init("HomothetyOp", <<dim, dim>>), cst.v)

\* pycsou.linop.base.IdentityOperator(shape): a positive-definite operator
IdentityOperator_init(shape) == SquareOp_init("IdentityOperator", shape)

\* the __init__ of class c, run on a new instance of class K
init_of(c, K, shape) ==
  CASE c = "Map" -> Map_init(K, shape)
    [] c = "DiffMap" -> DiffMap_init(K, shape)
    [] c \in {"Func", "ProxFunc", "DiffFunc"} -> Func_init(K, shape)
    [] c = "LinOp" -> LinOp_init(K, shape)
    [] c = "LinFunc" -> LinFunc_init(K, shape)
    [] c = "SquareOp" -> SquareOp_init(K, shape)
    [] c \in {"UnitOp", "OrthProjOp"} -> UnitOp_init(K, shape)
    [] c = "IdentityOperator" -> IdentityOperator_init(shape)
    [] OTHER -> NotBuilt("TypeError", "__init__")

\* cls(shape): the __init__ the class resolves to
Construct(K, shape) == init_of(Resolve(K, "__init__"), K, shape)

----------------------------------------------------------------------------
(* specialize and squeeze. *)

\* getattr(x, p) for a method name p: the instance attribute, else the class's
getattr(h, x, p) ==
  IF h[x].attrs[p].t # "none" THEN h[x].attrs[p] ELSE Term("class", x, 0, p)

\* the test read the other way round: b is no subset of a
not_superset(a, b) == ~(b \subseteq a)

\* a > b for two sets of str: b is a proper subset of a
proper_superset(a, b) == b \subseteq a /\ b # a

\* Map.specialize from `obj = cast_to(self.shape)` on; b is the outcome of the
\* constructor, copied the props the loop visits, synth the value of
\* cast_to.has("single_valued")
specialize_copy(h, x, b, copied, synth) ==
  IF b.exc # "none"
  THEN Raise(h, b.exc, b.site)
  ELSE Ok(Append(h, [b.inst EXCEPT !.attrs =
                       [m \in MethodNames |->
                          IF m = "gradient" /\ "jacobian" \in copied /\ synth
                          THEN Term("flat_jacobian", x, 0, "")
                          ELSE IF m \in copied /\ ~(m = "jacobian" /\ synth)
                               THEN getattr(h, x, m)
                               ELSE NoAttr]]),
          Len(h) + 1)

\* Map.specialize
specialize(h, x, cast_to) ==
  IF cast_to = h[x].kind
  THEN Ok(h, x)
  ELSE IF proper_superset(properties(h[x].kind), properties(cast_to))
       THEN Raise(h, "ValueError", "specialize")
       ELSE specialize_copy(h, x, Construct(cast_to, h[x].shape),
                            properties(h[x].kind) \cap MethodNames,
                            has(cast_to, CharsOfSingleValued))

\* the `out` of the squeeze defined by class c
squeeze_class(c) ==
  CASE c = "Map" -> "Func"
    [] c = "DiffMap" -> "DiffFunc"
    [] c = "LinOp" -> "LinFunc"

\* the class squeeze() casts to: the `out` of the squeeze the instance resolves
squeeze_out(K) == squeeze_class(Resolve(K, "squeeze"))

\* Map._squeeze
squeeze_to(h, x, out) ==
  IF h[x].shape[1] = 1 THEN specialize(h, x, out) ELSE Ok(h, x)

\* Map.squeeze, DiffMap.squeeze, LinOp.squeeze
squeeze(h, x) == squeeze_to(h, x, squeeze_out(h[x].kind))

\* q.squeeze() for the outcome q of the statements before it
then_squeeze(q) == IF q.exc # "none" THEN q ELSE squeeze(q.h, q.r)

----------------------------------------------------------------------------
(* Addition. The combinators yield the set of outcomes the call can have:  *)
(* the iteration order of a set of str is not fixed, and two loops of      *)
(* Property.__add__ depend on it.                                          *)

Max(a, b) == IF a > b THEN a ELSE b

\* pycsou.util.broadcast_sum_shapes: equal domain sizes, codomain sizes equal
\* or one of them 1
broadcast_sum_shapes(s1, s2) ==
  [valid |-> s1[2] = s2[2] /\ (s1[1] = s2[1] \/ s1[1] = 1 \/ s2[1] = 1),
   out |-> <<Max(s1[1], s2[1]), s1[2]>>]

\* for Op in _base_operators: if Op.properties() == shared_props: break
\* (without a match Op is left at whichever class the iteration ended with)
last_visited(matches) == IF matches # {} THEN matches ELSE base_operators

kind_lookup(shared) == last_visited({Op \in base_operators : properties(Op) = shared})

\* the kinds whose jacobian the combinators do not synthesise
no_jacobian_kinds == {"LinOp", "DiffFunc", "LinFunc"}

\* the props `prop in ["_lispchitz", "_diff_lipschitz"]` accepts
add_bound_props == {"_lispchitz", "_diff_lipschitz"}

\* Property.__add__, from `out_op = Op(out_shape)` on. Every composite_method
\* closes over the loop variable prop, so every attached method reads the
\* value prop was left with: lp, the prop the loop visited last.
discard_props(Op, shared0) ==
  (IF Op \in no_jacobian_kinds THEN shared0 \ {"jacobian"} ELSE shared0) \ {"single_valued"}

\* out_op.squeeze() for an out_op the heap does not hold yet
squeeze_new(h, out_op) == squeeze(Append(h, out_op), Len(h) + 1)

\* the loop of Property.__add__ over shared, on the out_op built as b
add_attach(h, s, o, b, shared) ==
  IF b.exc # "none"
  THEN {Raise(h, b.exc, b.site)}
  ELSE {squeeze_new(h, [b.inst EXCEPT
                          !.lip = IF "_lipschitz" \in shared \cap add_bound_props
                                  THEN LipAdd(h[s].lip, h[o].lip) ELSE @,
                          !.dlip = IF "_diff_lipschitz" \in shared \cap add_bound_props
                                   THEN LipAdd(h[s].dlip, h[o].dlip) ELSE @,
                          !.attrs = [m \in MethodNames |->
                                       IF m \in shared \ add_bound_props
                                       THEN Term("sum", s, o, lp) ELSE NoAttr]]) :
          lp \in shared}

add_build(h, s, o, out_shape, Op, shared0) ==
  add_attach(h, s, o, Construct(Op, out_shape), discard_props(Op, shared0))

\* Property.__add__(self, other)
Property_add(h, s, o) ==
  IF ~IsInstance(h, o, "Map")
  THEN {Raise(h, "NotImplementedError", "__add__")}
  ELSE IF s.k # "op"
       THEN {Raise(h, "AttributeError", "__add__")}
       ELSE LET bs == broadcast_sum_shapes(h[s.v].shape, h[o.v].shape)
                shared0 == (properties(h[s.v].kind) \cap properties(h[o.v].kind)) \ {"prox"}
            IN IF ~bs.valid
               THEN {Raise(h, "ValueError", "__add__.shapes")}
               ELSE UNION {add_build(h, s.v, o.v, bs.out, Op, shared0) :
                             Op \in kind_lookup(shared0)}

\* the method attached to the left operand, not to the instance q returned
set_prox_on_self(q, term) ==
  IF q.exc # "none" THEN q ELSE Ok([q.h EXCEPT ![1].attrs["prox"] = term], q.r)

\* f.prox = types.MethodType(...) on the instance the outcome q returned
set_prox(q, term) ==
  IF q.exc # "none" THEN q ELSE Ok([q.h EXCEPT ![q.r].attrs["prox"] = term], q.r)

\* a call whose result the caller drops: the caller goes on with r
drop_result(q, r) == IF q.exc # "none" THEN q ELSE Ok(q.h, r)

\* ProxFunc.__add__(self, other), after f = Property.__add__(self, other)
ProxFunc_add_tail(f, s, o) ==
  IF f.exc # "none"
  THEN f
  ELSE then_squeeze(IF IsInstance(f.h, o, "LinFunc")
                    THEN set_prox(specialize(f.h, f.r, "ProxFunc"),
                                  Term("prox_sum", s.v, o.v, ""))
                    ELSE f)

\* ProxFunc.__add__
ProxFunc_add(h, s, o) == {ProxFunc_add_tail(f, s, o) : f \in Property_add(h, s, o)}

\* LinFunc.__add__
LinFunc_add(h, s, o) == ProxFunc_add(h, o, s)

\* the __add__ defined by class c
add_of(c, h, s, o) ==
  CASE c = "Property" -> Property_add(h, s, o)
    [] c = "ProxFunc" -> ProxFunc_add(h, s, o)
    [] c = "LinFunc" -> LinFunc_add(h, s, o)

\* self + other: the __add__ the class of self resolves to
Add(h, s, o) == add_of(Resolve(h[s.v].kind, "__add__"), h, s, o)

----------------------------------------------------------------------------
(* Composition and scalar multiplication. *)

\* the loop of Property.__mul__ over shared_props, on the out_op built as b
mul_attach(h, s, o, b, shared) ==
  IF b.exc # "none"
  THEN Raise(h, b.exc, b.site)
  ELSE squeeze_new(h, [b.inst EXCEPT
         !.lip = IF "_lipschitz" \in shared THEN LipMul(h[s].lip, h[o].lip) ELSE @,
         !.dlip = IF "_diff_lipschitz" \in shared
                  THEN IF IsSubclass(h[s].kind, "LinOp") THEN LipMul(h[s].lip, h[o].dlip)
                       ELSE IF IsSubclass(h[o].kind, "LinOp")
                            THEN LipMul(h[s].dlip, LipMul(h[o].lip, h[o].lip))
                            ELSE Inf
                  ELSE @,
         !.attrs = [m \in MethodNames |->
                      IF m \notin shared THEN NoAttr
                      ELSE CASE m = "apply" -> Term("comp_apply", s, o, "")
                             [] m = "gradient" -> Term("comp_gradient", s, o, "")
                             [] m = "jacobian" -> Term("comp_jacobian", s, o, "")
                             [] m = "adjoint" -> Term("comp_adjoint", s, o, "")
                             [] OTHER -> NoAttr]])

\* Property.__mul__, from the lookup of Op on
mul_build(h, s, o, Op, shared0) ==
  mul_attach(h, s, o, Construct(Op, <<h[s].shape[1], h[o].shape[2]>>),
             discard_props(Op, shared0))

\* a shape test that compares the wrong pair of sizes
mul_shapes_swapped(f, g) == f.shape[1] = g.shape[2]

\* the shape test of Property.__mul__: self.shape[1] == other.shape[0]
mul_shapes_ok(f, g) == f.shape[2] = g.shape[1]

\* a promotion that adds gradient alone
promote_gradient_only(i, codim) ==
  IF codim = 1 /\ "jacobian" \in i THEN i \cup {"gradient"} ELSE i

\* shared_props.update({"gradient", "single_valued"}) for a functional self
promote(i, codim) ==
  IF codim = 1 /\ "jacobian" \in i THEN i \cup {"gradient", "single_valued"} ELSE i

\* the Op the lookup ends with, for each way the frozenset can be iterated
mul_lookup(h, s, o, shared0) ==
  {mul_build(h, s, o, Op, shared0) : Op \in kind_lookup(shared0)}

\* Property.__mul__ for an operand that is no real number
Property_mul_op(h, s, o) ==
  IF ~IsInstance(h, o, "Map")
  THEN {Raise(h, "NotImplementedError", "__mul__")}
  ELSE IF ~mul_shapes_ok(h[s.v], h[o.v])
       THEN {Raise(h, "ValueError", "__mul__.shapes")}
       ELSE mul_lookup(h, s.v, o.v,
                       promote((properties(h[s.v].kind) \cap properties(h[o.v].kind))
                                 \ {"prox"},
                               h[s.v].shape[1]))

\* `return outop`: the name is not defined
return_outop(q) ==
  IF q.exc # "none" THEN q ELSE Raise(q.h, "NameError", "_HomothetyOp.__mul__")

\* _HomothetyOp.__mul__, after out_op = Property.__mul__(self, other)
HomothetyOp_mul_tail(f, s, o) ==
  IF f.exc # "none"
  THEN f
  ELSE return_outop(IF IsInstance(f.h, o, "ProxFunc")
                    THEN set_prox(drop_result(specialize(f.h, f.r, "ProxFunc"), f.r),
                                  Term("prox_scaled", o.v, s.v, ""))
                    ELSE f)

\* Property.__mul__ calls hmap.__mul__, which calls Property.__mul__
RECURSIVE Property_mul(_, _, _)
RECURSIVE HomothetyOp_mul(_, _, _)

\* hmap.__mul__(self) for the hmap built as b
scalar_mul(h, s, b) ==
  IF b.exc # "none"
  THEN {Raise(h, b.exc, b.site)}
  ELSE HomothetyOp_mul(Append(h, b.inst), OpArg(Len(h) + 1), s)

\* Property.__mul__(self, other)
Property_mul(h, s, o) ==
  IF IsReal(o)
  THEN scalar_mul(h, s, HomothetyOp_init(o, h[s.v].shape[1]))
  ELSE Property_mul_op(h, s, o)

\* _HomothetyOp.__mul__
HomothetyOp_mul(h, s, o) ==
  {HomothetyOp_mul_tail(f, s, o) : f \in Property_mul(h, s, o)}

\* the prox ProxFunc.__mul__ attaches for the operand o
mul_prox(h, s, o) ==
  IF IsInstance(h, o, "UnitOp") THEN Term("prox_unit", s.v, o.v, "")
                                ELSE Term("prox_homothety", s.v, o.v, "")

\* ProxFunc.__mul__, after f = Property.__mul__(self, other); the result of
\* f.specialize is dropped and prox is attached to f itself
ProxFunc_mul_tail(f, s, o) ==
  IF f.exc # "none"
  THEN f
  ELSE then_squeeze(IF IsInstance(f.h, o, "UnitOp") \/ IsInstance(f.h, o, "HomothetyOp")
                    THEN set_prox(drop_result(specialize(f.h, f.r, "ProxFunc"), f.r),
                                  mul_prox(f.h, s, o))
                    ELSE f)

\* ProxFunc.__mul__
ProxFunc_mul(h, s, o) == {ProxFunc_mul_tail(f, s, o) : f \in Property_mul(h, s, o)}

\* the __mul__ defined by class c
mul_of(c, h, s, o) ==
  CASE c = "Property" -> Property_mul(h, s, o)
    [] c = "ProxFunc" -> ProxFunc_mul(h, s, o)
    [] c = "HomothetyOp" -> HomothetyOp_mul(h, s, o)

\* self * other: the __mul__ the class of self resolves to
Mul(h, s, o) == mul_of(Resolve(h[s.v].kind, "__mul__"), h, s, o)

\* Property.__rmul__
Rmul(h, s, o) == Mul(h, s, o)

\* Property.__neg__
Neg(h, s) == Mul(h, s, IntArg(-1))

\* Property.__sub__: self.__add__(other.__neg__())
Sub(h, s, o) ==
  UNION {IF n.exc # "none" THEN {n} ELSE Add(n.h, s, OpArg(n.r)) : n \in Neg(h, o)}

\* 1 / scalar, for the scalars whose reciprocal is an integer
Reciprocal(n) == CHOOSE r \in {-1, 1} : r * n = 1

\* Property.__truediv__
Truediv(h, s, o) ==
  IF IsReal(o)
  THEN IF o.v = 0
       THEN {Raise(h, "ZeroDivisionError", "__truediv__")}
       ELSE Mul(h, s, IntArg(Reciprocal(o.v)))
  ELSE {Raise(h, "NotImplementedError", "__truediv__")}

----------------------------------------------------------------------------
(* Powers. A power yields [out, nmul]: the outcome and the number of calls *)
(* of self.__mul__ it made.                                                *)

\* `for i in range(0, power)`: one composition more
pow_range_from_zero == 1 - 1

\* the first value of `for i in range(1, power)`
pow_range_start == 1

\* IdentityOperator(shape=self.shape)
allocate(h, b) ==
  IF b.exc # "none" THEN Raise(h, b.exc, b.site) ELSE Ok(Append(h, b.inst), Len(h) + 1)

identity(h, shape) == allocate(h, IdentityOperator_init(shape))

\* the loop of Property.__pow__: exp_map = self.__mul__(exp_map)
RECURSIVE pow_loop(_, _, _, _, _, _)
pow_loop(h, s, exp_map, i, power, n) ==
  IF i >= power
  THEN {[out |-> Ok(h, exp_map), nmul |-> n]}
  ELSE UNION {IF f.exc # "none"
              THEN {[out |-> f, nmul |-> n + 1]}
              ELSE pow_loop(f.h, s, f.r, i + 1, power, n + 1) :
                f \in Mul(h, OpArg(s), OpArg(exp_map))}

\* Property.__pow__
Property_pow(h, s, power) ==
  IF power.k = "int"
  THEN IF power.v = 0
       THEN {[out |-> identity(h, h[s].shape), nmul |-> 0]}
       ELSE pow_loop(h, s, s, pow_range_start, power.v, 0)
  ELSE {[out |-> Raise(h, "NotImplementedError", "__pow__"), nmul |-> 0]}

\* ProjOp.__pow__
ProjOp_pow(h, s, power) ==
  IF power.k = "int" /\ power.v = 0
  THEN {[out |-> identity(h, h[s].shape), nmul |-> 0]}
  ELSE {[out |-> Ok(h, s), nmul |-> 0]}

\* the __pow__ defined by class c
pow_of(c, h, s, power) ==
  CASE c = "Property" -> Property_pow(h, s, power)
    [] c = "ProjOp" -> ProjOp_pow(h, s, power)

\* self ** power: the __pow__ the class of self resolves to
Pow(h, s, power) == pow_of(Resolve(h[s].kind, "__pow__"), h, s, power)

----------------------------------------------------------------------------
(* Argument scale and shift. An array operand is a vector, known by its    *)
(* length.                                                                  *)

\* an NDArray of shape (n,)
ArrayArg(n) == [k |-> "array", v |-> n, name |-> ""]

\* Property.argscale: its first statement reads `other`, a name the function
\* does not define
Property_argscale(h, s, scalar) == Raise(h, "NameError", "argscale")

\* arr.copy().squeeze().shape for arr of shape (n,): squeeze drops the axes of
\* length 1
array_squeeze(n) == IF n = 1 THEN <<>> ELSE <<n>>

\* Property.argshift from `out_op = self.__class__(shape=self.shape)` on, for
\* the out_op built as b: `if Op in [...]` reads Op, a name the function does
\* not define
argshift_build(h, b) ==
  IF b.exc # "none"
  THEN Raise(h, b.exc, b.site)
  ELSE Raise(Append(h, b.inst), "NameError", "argshift")

\* the test `arr.shape[-1] != self.shape[-1]` of Property.argshift and what
\* follows it, for the squeezed shape sq of arr
argshift_checked(h, s, sq) ==
  IF Len(sq) = 0
  THEN Raise(h, "IndexError", "argshift")
  ELSE IF sq[Len(sq)] # h[s].shape[Len(h[s].shape)]
       THEN Raise(h, "ValueError", "argshift.shapes")
       ELSE argshift_build(h, Construct(h[s].kind, h[s].shape))

\* Property.argshift
Property_argshift(h, s, arr) ==
  IF arr.k # "array"
  THEN Raise(h, "ValueError", "argshift.copy")
  ELSE argshift_checked(h, s, array_squeeze(arr.v))

\* f = f.specialize(cast_to=K), after the call whose outcome is q
then_specialize(q, K) == IF q.exc # "none" THEN q ELSE specialize(q.h, q.r, K)

\* ProxFunc.argshift
ProxFunc_argshift(h, s, arr) ==
  set_prox(then_specialize(Property_argshift(h, s, arr), "ProxFunc"),
           Term("prox_shift", s, 0, ""))

\* the argshift defined by class c
argshift_of(c, h, s, arr) ==
  CASE c = "Property" -> Property_argshift(h, s, arr)
    [] c = "ProxFunc" -> ProxFunc_argshift(h, s, arr)

\* self.argshift(arr): the argshift the class of self resolves to
Argshift(h, s, arr) == argshift_of(Resolve(h[s].kind, "argshift"), h, s, arr)

----------------------------------------------------------------------------
(* The program: a leaf operator f = heap[1] is constructed, then one       *)
(* combinator is called on it; a second operator operand g is a leaf       *)
(* constructed for the call (heap[2]) or f itself.                         *)

Shapes == {<<c, d>> : c \in 1..MaxDim, d \in 1..MaxDim}

\* A leaf: an instance of a lattice kind as its constructor leaves it, its
\* _lipschitz as the constructor set it or a finite bound the subclass stored.
Leaves ==
  {[Construct(K, sh).inst EXCEPT !.lip = l] :
     <<K, sh, l>> \in
       {t \in LatticeKinds \X Shapes \X ({Inf} \cup {Fin(n) : n \in 1..MaxLip}) :
          /\ Construct(t[1], t[2]).exc = "none"
          /\ t[3] = Inf => Construct(t[1], t[2]).inst.lip = Inf}}

\* real scalars handed to *, / (Python ints)
Scalars == {-1, 0, 1, 2}

\* exponents handed to **
Powers == {IntArg(n) : n \in -1..MaxPow} \cup {FloatArg, OtherArg}

\* right-hand operands that are no operator
NonOperators == {OtherArg, FloatArg} \cup {IntArg(c) : c \in Scalars}

\* right-hand operands of * that are no operator: real scalars and other objects
MulOperands == {OtherArg} \cup {IntArg(c) : c \in Scalars}

NoCall == [op |-> "none", s |-> 0, o |-> NoArg, r |-> 0, exc |-> "none", site |-> "none",
           nalloc |-> 0, nmul |-> 0, pre |-> <<>>, shape |-> <<>>]

\* The state after a call of op on self s with operand o, made on heap h, whose
\* outcome is out: the heap is as the call left it, whether it returned or
\* raised, and pre is the heap the call was made on.
Called(op, h, s, o, out, nmul) ==
  /\ heap' = out.h
  /\ last' = [op |-> op, s |-> s, o |-> o, r |-> out.r, exc |-> out.exc, site |-> out.site,
              nalloc |-> Len(out.h) - Len(h), nmul |-> nmul, pre |-> h, shape |-> <<>>]

Idle == last.op = "none"

\* the heaps and operator operands a binary call can be made with
OperatorOperands == {<<heap, OpArg(1)>>} \cup {<<Append(heap, g), OpArg(2)>> : g \in Leaves}

Init ==
  /\ heap \in {<<f>> : f \in Leaves}
  /\ last = NoCall

\* f + g
DoAdd ==
  /\ Idle
  /\ \E a \in OperatorOperands : \E out \in Add(a[1], OpArg(1), a[2]) :
       Called("add", a[1], 1, a[2], out, 0)

\* f + x, x no operator
DoAddOther ==
  /\ Idle
  /\ \E x \in NonOperators : \E out \in Add(heap, OpArg(1), x) :
       Called("add", heap, 1, x, out, 0)

\* f * g
DoMul ==
  /\ Idle
  /\ \E a \in OperatorOperands : \E out \in Mul(a[1], OpArg(1), a[2]) :
       Called("mul", a[1], 1, a[2], out, 0)

\* f * c and f * x, c a real scalar, x neither operator nor real
DoMulOther ==
  /\ Idle
  /\ \E x \in MulOperands : \E out \in Mul(heap, OpArg(1), x) :
       Called("mul", heap, 1, x, out, 0)

\* c * f
DoRmul ==
  /\ Idle
  /\ \E c \in Scalars : \E out \in Rmul(heap, OpArg(1), IntArg(c)) :
       Called("rmul", heap, 1, IntArg(c), out, 0)

\* -f
DoNeg ==
  /\ Idle
  /\ \E out \in Neg(heap, OpArg(1)) : Called("neg", heap, 1, NoArg, out, 0)

\* f - g
DoSub ==
  /\ Idle
  /\ \E a \in OperatorOperands : \E out \in Sub(a[1], OpArg(1), a[2]) :
       Called("sub", a[1], 1, a[2], out, 0)

\* f / c
DoTruediv ==
  /\ Idle
  /\ \E x \in {IntArg(-1), IntArg(0), IntArg(1), OtherArg} :
       \E out \in Truediv(heap, OpArg(1), x) : Called("truediv", heap, 1, x, out, 0)

\* f ** n
DoPow ==
  /\ Idle
  /\ \E n \in Powers : \E p \in Pow(heap, 1, n) : Called("pow", heap, 1, n, p.out, p.nmul)

\* f.specialize(cast_to)
DoSpecialize ==
  /\ Idle
  /\ \E K \in LatticeKinds :
       Called("specialize", heap, 1, ClassArg(K), specialize(heap, 1, K), 0)

\* f.squeeze()
DoSqueeze ==
  /\ Idle
  /\ Called("squeeze", heap, 1, NoArg, squeeze(heap, 1), 0)

\* shift vectors: of length 1 to MaxDim + 1, and a value that is no array
ShiftArgs == {ArrayArg(n) : n \in 1..(MaxDim + 1)} \cup {OtherArg}

\* f.argshift(a)
DoArgshift ==
  /\ Idle
  /\ \E a \in ShiftArgs : Called("argshift", heap, 1, a, Argshift(heap, 1, a), 0)

\* f.argscale(c)
DoArgscale ==
  /\ Idle
  /\ \E c \in MulOperands : Called("argscale", heap, 1, c, Property_argscale(heap, 1, c), 0)

\* the shapes handed to a constructor: (c, n) and (n,)
ShapeArgs == Shapes \cup {<<n>> : n \in 1..MaxDim}

\* The state after K(shape), whose outcome is out
Constructed(K, shape, out) ==
  /\ heap' = out.h
  /\ last' = [NoCall EXCEPT !.op = "construct", !.o = ClassArg(K), !.r = out.r,
                            !.exc = out.exc, !.site = out.site,
                            !.nalloc = Len(out.h) - Len(heap), !.pre = heap,
                            !.shape = shape]

\* K(shape)
DoConstruct ==
  /\ Idle
  /\ \E K \in LatticeKinds : \E shape \in ShapeArgs :
       Constructed(K, shape, allocate(heap, Construct(K, shape)))

\* f.squeeze().squeeze(): the second squeeze, on what the first one returned
DoSqueezeAgain ==
  /\ last.op = "squeeze"
  /\ last.exc = "none"
  /\ Called("squeeze_again", heap, last.r, NoArg, squeeze(heap, last.r), 0)

Next ==
  \/ DoAdd
  \/ DoAddOther
  \/ DoMul
  \/ DoMulOther
  \/ DoRmul
  \/ DoNeg
  \/ DoSub
  \/ DoTruediv
  \/ DoPow
  \/ DoSpecialize
  \/ DoSqueeze
  \/ DoSqueezeAgain
  \/ DoConstruct
  \/ DoArgshift
  \/ DoArgscale

Spec == Init /\ [][Next]_vars

----------------------------------------------------------------------------
(* Properties of the one call a behaviour makes. Self is the operator the  *)
(* call was made on, Other its operator operand, Result what it returned.  *)

Self == heap[1]

Other == heap[last.o.v]

Result == heap[last.r]

Succeeded == last.exc = "none"

\* the call was op, made with an operator as right-hand operand
BinaryCall(op) == last.op = op /\ last.o.k = "op"

\* the functional kind an operator of kind K and codomain size 1 is narrowed to
functional_counterpart(K) ==
  IF IsSubclass(K, "Func") THEN K
  ELSE IF IsSubclass(K, "LinOp") THEN "LinFunc"
  ELSE IF IsSubclass(K, "DiffMap") THEN "DiffFunc"
  ELSE "Func"

\* the kind a sum of f and g is said to have
sum_kind(f, g) ==
  LET caps == (properties(f.kind) \cap properties(g.kind)) \ {"prox"}
      K == CHOOSE Op \in base_operators : properties(Op) = caps
  IN IF {f.kind, g.kind} = {"ProxFunc", "LinFunc"} THEN "ProxFunc"
     ELSE IF Max(f.shape[1], g.shape[1]) = 1 THEN functional_counterpart(K) ELSE K

\* C1: a sum f + g of two operators of base kinds with sum-compatible shapes
\* succeeds, and the operator it returns is of the kind whose capability set is
\* caps(f) \cap caps(g) without proximal-step, narrowed to the functional
\* counterpart for a codomain of size 1, ProxFunc for ProxFunc + LinFunc.
C1_SumKind ==
  (/\ BinaryCall("add")
   /\ Self.kind \in base_operators
   /\ Other.kind \in base_operators
   /\ broadcast_sum_shapes(Self.shape, Other.shape).valid)
  => (Succeeded /\ Result.kind = sum_kind(Self, Other))

\* the sum of two DiffFunc was asked for, and the call raised in specialize
C1_DiffFuncSumRaises ==
  /\ BinaryCall("add")
  /\ Self.kind = "DiffFunc"
  /\ Other.kind = "DiffFunc"
  /\ last.exc = "ValueError"
  /\ last.site = "specialize"

\* C2: every method a successful sum f + g carries for a capability p adds the
\* results of the methods of that same capability p of f and of g; its apply is
\* such a method.
C2_SumDelegates ==
  (BinaryCall("add") /\ Succeeded)
  => /\ Result.attrs["apply"].t = "sum"
     /\ \A m \in MethodNames :
          Result.attrs[m].t = "sum"
          => /\ Result.attrs[m].p = m
             /\ {Result.attrs[m].a, Result.attrs[m].b} = {1, last.o.v}

\* the apply of a sum of two DiffMap adds the operands' jacobians
C2_ApplyAddsJacobians ==
  /\ BinaryCall("add")
  /\ Succeeded
  /\ Self.kind = "DiffMap"
  /\ Other.kind = "DiffMap"
  /\ Result.attrs["apply"] = Term("sum", 1, last.o.v, "jacobian")

\* C3: for operators f, g with f.dim = g.codim the composition f * g succeeds,
\* has shape (f.codim, g.dim), its apply is f.apply after g.apply and, when f and
\* g are linear, its adjoint is g.adjoint after f.adjoint.
C3_Composition ==
  (BinaryCall("mul") /\ Self.shape[2] = Other.shape[1])
  => /\ Succeeded
     /\ Result.shape = <<Self.shape[1], Other.shape[2]>>
     /\ Result.attrs["apply"] = Term("comp_apply", 1, last.o.v, "")
     /\ (IsSubclass(Self.kind, "LinOp") /\ IsSubclass(Other.kind, "LinOp"))
        => Result.attrs["adjoint"] = Term("comp_adjoint", 1, last.o.v, "")

\* a DiffFunc was composed with a DiffMap of matching shape, and the call raised
\* in specialize
C3_DiffFuncCompositionRaises ==
  /\ BinaryCall("mul")
  /\ Self.kind = "DiffFunc"
  /\ Other.kind = "DiffMap"
  /\ Self.shape[2] = Other.shape[1]
  /\ last.exc = "ValueError"
  /\ last.site = "specialize"

\* C4: the Lipschitz bound of a successful sum of two operators with finite
\* bounds is the sum of their bounds, that of a successful composition is the
\* product of their bounds.
C4_LipschitzPropagates ==
  (/\ last.op \in {"add", "mul"}
   /\ last.o.k = "op"
   /\ Succeeded
   /\ Self.lip.k = "fin"
   /\ Other.lip.k = "fin")
  => Result.lip = IF last.op = "add" THEN LipAdd(Self.lip, Other.lip)
                                     ELSE LipMul(Self.lip, Other.lip)

\* the sum of two LinOp of bounds 2 and 3 is a LinOp of bound np.infty
C4_SumBoundInfinite ==
  /\ BinaryCall("add")
  /\ Succeeded
  /\ Self.kind = "LinOp" /\ Self.lip = Fin(2)
  /\ Other.kind = "LinOp" /\ Other.lip = Fin(3)
  /\ Result.kind = "LinOp"
  /\ Result.lip = Inf

\* C5: a composition f * g of two operators ends at the shape-mismatch raise of
\* __mul__ (a ValueError) if and only if f.dim # g.codim, and then no instance
\* was constructed by the call and nothing is returned.
C5_ShapeMismatch ==
  BinaryCall("mul")
  => /\ (last.exc = "ValueError" /\ last.site = "__mul__.shapes")
        <=> Self.shape[2] # Other.shape[1]
     /\ Self.shape[2] # Other.shape[1] => (last.nalloc = 0 /\ last.r = 0)

\* a composition of mismatched shapes was asked for and refused
C5_Refused ==
  /\ BinaryCall("mul")
  /\ Self.shape[2] # Other.shape[1]
  /\ last.exc = "ValueError"
  /\ last.site = "__mul__.shapes"
  /\ last.nalloc = 0

\* C6: f + x for an x that is no operator, and f * x for an x that is neither an
\* operator nor a real scalar, raise NotImplementedError, whatever the kind of f.
C6_UnsupportedOperand ==
  (/\ last.op \in {"add", "mul"}
   /\ last.o.k # "op"
   /\ last.op = "mul" => ~IsReal(last.o))
  => last.exc = "NotImplementedError"

\* a LinFunc was added to an object that is no operator: AttributeError
C6_LinFuncAttributeError ==
  /\ last.op = "add"
  /\ last.o = OtherArg
  /\ Self.kind = "LinFunc"
  /\ last.exc = "AttributeError"

\* C7: f * c and c * f for a real scalar c succeed and return an operator of the
\* shape of f whose apply is the apply of a homothety of constant c after f.apply;
\* -f, f - g for sum-compatible shapes and f / c for c # 0 succeed.
C7_ScalarMultiplication ==
  /\ (last.op \in {"mul", "rmul"} /\ IsReal(last.o))
     => /\ Succeeded
        /\ Result.shape = Self.shape
        /\ Result.attrs["apply"].t = "comp_apply"
        /\ Result.attrs["apply"].b = 1
        /\ heap[Result.attrs["apply"].a].kind = "HomothetyOp"
        /\ heap[Result.attrs["apply"].a].cst = last.o.v
  /\ last.op = "neg" => Succeeded
  /\ (BinaryCall("sub") /\ broadcast_sum_shapes(Self.shape, Other.shape).valid)
     => Succeeded
  /\ (last.op = "truediv" /\ IsReal(last.o) /\ last.o.v # 0) => Succeeded

\* a Map was multiplied by the scalar 2: NameError
C7_ScalarNameError ==
  /\ last.op = "mul"
  /\ last.o = IntArg(2)
  /\ Self.kind = "Map"
  /\ last.exc = "NameError"
  /\ last.site = "_HomothetyOp.__mul__"

caps_target == properties(last.o.name)

caps_op == properties(Self.kind)

\* C9 as stated: specialize(op, K) succeeds only when caps(K) is a subset of or
\* equal to caps(op), raises ValueError for every other K, and returns op itself
\* when K is the kind of op.
C9_SpecializeAsStated ==
  last.op = "specialize"
  => /\ Succeeded => caps_target \subseteq caps_op
     /\ ~(caps_target \subseteq caps_op) => last.exc = "ValueError"
     /\ last.o.name = Self.kind => (Succeeded /\ last.r = 1)

\* the shapes the constructor of kind K accepts for an operator's shape
constructor_accepts(K, shape) ==
  IF K \in {"Func", "ProxFunc", "DiffFunc", "LinFunc"} THEN shape[1] = 1
  ELSE IF K \in {"Map", "DiffMap", "LinOp"} THEN TRUE
  ELSE shape[1] = shape[2]

\* C9: specialize(op, K) returns op itself when K is the kind of op; for another K
\* it raises ValueError in specialize when caps(K) is a proper subset of caps(op),
\* and otherwise constructs K(op.shape): it returns that new instance of kind K
\* and of the shape of op, or fails with the ValueError of the constructor of a
\* functional kind for a codomain larger than 1, of a square kind for a shape
\* that is not square.
C9_Specialize ==
  last.op = "specialize"
  => IF last.o.name = Self.kind
     THEN Succeeded /\ last.r = 1 /\ last.nalloc = 0
     ELSE IF caps_target \subseteq caps_op /\ caps_target # caps_op
          THEN last.exc = "ValueError" /\ last.site = "specialize" /\ last.nalloc = 0
          ELSE IF constructor_accepts(last.o.name, Self.shape)
               THEN /\ Succeeded
                    /\ last.r # 1
                    /\ last.nalloc = 1
                    /\ Result.kind = last.o.name
                    /\ Result.shape = Self.shape
               ELSE /\ last.exc = "ValueError"
                    /\ last.site \in {"Func.__init__", "SquareOp.__init__"}

\* a Map was specialized to Func, a kind with a capability the Map lacks
C9_MapToFunc ==
  /\ last.op = "specialize"
  /\ Self.kind = "Map"
  /\ last.o.name = "Func"
  /\ ~(caps_target \subseteq caps_op)
  /\ Succeeded
  /\ Result.kind = "Func"

\* C10: op.squeeze() returns op itself when op.codim # 1, and for op.codim = 1 an
\* operator of the functional counterpart of the kind of op, of the shape of op.
C10_Squeeze ==
  last.op = "squeeze"
  => IF Self.shape[1] # 1
     THEN Succeeded /\ last.r = 1
     ELSE /\ Succeeded
          /\ Result.kind = functional_counterpart(Self.kind)
          /\ Result.shape = Self.shape

\* the squeeze of a DiffFunc raised
C10_DiffFuncSqueezeRaises ==
  /\ last.op = "squeeze"
  /\ Self.kind = "DiffFunc"
  /\ last.exc = "ValueError"
  /\ last.site = "specialize"

\* C11: op.squeeze().squeeze() succeeds and returns the operator the first
\* squeeze returned, and the squeeze of an instance of a functional kind returns
\* that instance.
C11_SqueezeIdempotent ==
  /\ last.op = "squeeze_again" => (Succeeded /\ last.r = last.s)
  /\ (last.op = "squeeze" /\ IsSubclass(Self.kind, "Func"))
     => (Succeeded /\ last.r = 1)

\* a DiffMap of codomain size 1 was squeezed to a DiffFunc, whose squeeze raised
C11_SecondSqueezeRaises ==
  /\ last.op = "squeeze_again"
  /\ Self.kind = "DiffMap"
  /\ heap[last.s].kind = "DiffFunc"
  /\ last.exc = "ValueError"
  /\ last.site = "specialize"

\* the combinators: +, *, scalar multiplication, negation, subtraction, division
\* and power
combinator_ops == {"add", "mul", "rmul", "neg", "sub", "truediv", "pow"}

\* C12: an operator of codomain size 1 that a combinator returns is an instance
\* of a functional kind, and its single_valued is the method of SingledValued.
C12_ResultSqueezed ==
  (last.op \in combinator_ops /\ Succeeded /\ Result.shape[1] = 1)
  => /\ IsSubclass(Result.kind, "Func")
     /\ "single_valued" \in Dir(Result.kind)

\* the first power of a Map of codomain size 1 is that Map
C12_PowerReturnsMap ==
  /\ last.op = "pow"
  /\ last.o = IntArg(1)
  /\ Succeeded
  /\ Self.kind = "Map"
  /\ Self.shape = <<1, 2>>
  /\ last.r = 1
  /\ "single_valued" \notin Dir(Result.kind)

\* C13: the composition f * U of a ProxFunc f of shape (1,n) with a UnitOp U of
\* shape (n,n) succeeds, is of a kind whose capability set has prox, and its prox
\* is U.adjoint(f.prox(U.apply(x), tau)).
C13_ProxOfUnitaryComposition ==
  (/\ BinaryCall("mul")
   /\ Self.kind = "ProxFunc"
   /\ IsSubclass(Other.kind, "UnitOp")
   /\ Self.shape[2] = Other.shape[1])
  => /\ Succeeded
     /\ "prox" \in properties(Result.kind)
     /\ Result.attrs["prox"] = Term("prox_unit", 1, last.o.v, "")

\* the composition of a ProxFunc with a UnitOp is a Func that carries a prox
C13_FuncWithProx ==
  /\ BinaryCall("mul")
  /\ Self.kind = "ProxFunc"
  /\ Other.kind = "UnitOp"
  /\ Succeeded
  /\ Result.kind = "Func"
  /\ "prox" \notin properties(Result.kind)
  /\ Result.attrs["prox"] = Term("prox_unit", 1, last.o.v, "")

\* the operands of the sum are a ProxFunc and a LinFunc of one shape, in this or
\* in the other order
prox_plus_linear ==
  /\ {Self.kind, Other.kind} = {"ProxFunc", "LinFunc"}
  /\ Self.shape = Other.shape

\* C14: the sum of a ProxFunc f and a LinFunc g of the same shape, in either
\* order, succeeds and is a ProxFunc whose prox is f.prox(x - tau * g.asarray(),
\* tau); no other sum carries a prox.
C14_ProxOfSum ==
  BinaryCall("add")
  => IF prox_plus_linear
     THEN /\ Succeeded
          /\ Result.kind = "ProxFunc"
          /\ Result.attrs["prox"].t = "prox_sum"
          /\ heap[Result.attrs["prox"].a].kind = "ProxFunc"
          /\ heap[Result.attrs["prox"].b].kind = "LinFunc"
     ELSE Succeeded
          => /\ "prox" \notin properties(Result.kind)
             /\ Result.attrs["prox"] = NoAttr

\* the sum of a ProxFunc and a LinFunc of the same shape raised in specialize
C14_ProxFuncPlusLinFuncRaises ==
  /\ BinaryCall("add")
  /\ Self.kind = "ProxFunc"
  /\ Other.kind = "LinFunc"
  /\ Self.shape = Other.shape
  /\ last.exc = "ValueError"
  /\ last.site = "specialize"

\* C15: no call of +, *, a scalar multiplication, **, specialize or squeeze,
\* returning or raising, changes the shape, the bounds, the kind or the attached
\* methods of an instance that existed when it was made; what a call attaches,
\* it attaches to an instance it allocated.
C15_OperandsNotMutated ==
  /\ Len(heap) >= Len(last.pre)
  /\ \A i \in 1..Len(last.pre) : heap[i] = last.pre[i]

\* a composition attached a prox: to the instance it allocated, and its two
\* operands have none
C15_ProxAttachedToFresh ==
  /\ BinaryCall("mul")
  /\ Succeeded
  /\ Result.attrs["prox"].t = "prox_unit"
  /\ last.r > Len(last.pre)
  /\ Len(last.pre) = 2
  /\ Self.attrs["prox"] = NoAttr
  /\ Other.attrs["prox"] = NoAttr

\* a call that raised after it had allocated: a scalar multiplication
C15_RaisedAfterAllocating ==
  /\ last.op = "mul"
  /\ last.o.k = "int"
  /\ last.exc = "NameError"
  /\ Len(heap) > Len(last.pre)

\* the base kinds whose capability set is the one the lookup is given
lookup_matches(shared) == {Op \in base_operators : properties(Op) = shared}

\* the capability set Property.__add__ infers for operands of kinds K1 and K2
add_inferred(K1, K2) == (properties(K1) \cap properties(K2)) \ {"prox"}

\* the capability set Property.__mul__ infers for operands of kinds K1 and K2,
\* the left one of codomain size codim
mul_inferred(K1, K2, codim) == promote(add_inferred(K1, K2), codim)

\* the call made was a scalar multiplication that built its homothety
ScalarCall == last.op \in {"mul", "rmul"} /\ last.o.k = "int" /\ Len(heap) > Len(last.pre)

\* for every ordered pair of kinds, and every codomain size of the left one,
\* one base kind has the capability set a sum or a composition infers
every_pair_matches ==
  \A K1 \in Kinds : \A K2 \in Kinds :
    /\ Cardinality(lookup_matches(add_inferred(K1, K2))) = 1
    /\ \A codim \in 1..MaxDim : Cardinality(lookup_matches(mul_inferred(K1, K2, codim))) = 1

\* C16: the kind lookup always ends by a match: for the operands of every sum
\* and composition that passed its shape test (the homothety of a scalar
\* multiplication included), and for every ordered pair of kinds of the
\* hierarchy with either codomain size, exactly one base kind has the inferred
\* capability set.
C16_LookupAlwaysMatches ==
  /\ (BinaryCall("add") /\ broadcast_sum_shapes(Self.shape, Other.shape).valid)
       => Cardinality(lookup_matches(add_inferred(Self.kind, Other.kind))) = 1
  /\ (BinaryCall("mul") /\ mul_shapes_ok(Self, Other))
       => Cardinality(lookup_matches(mul_inferred(Self.kind, Other.kind, Self.shape[1]))) = 1
  /\ ScalarCall
       => Cardinality(lookup_matches(mul_inferred(heap[Len(last.pre) + 1].kind, Self.kind,
                                                  heap[Len(last.pre) + 1].shape[1]))) = 1
  /\ every_pair_matches

\* a composition whose promoted capability set matched LinFunc and no other kind
C16_PromotedToLinFunc ==
  /\ BinaryCall("mul")
  /\ Self.kind = "LinOp"
  /\ Self.shape[1] = 1
  /\ Other.kind = "LinOp"
  /\ add_inferred(Self.kind, Other.kind) = properties("LinOp")
  /\ lookup_matches(mul_inferred(Self.kind, Other.kind, Self.shape[1])) = {"LinFunc"}
  /\ Succeeded
  /\ Result.kind = "LinFunc"

\* a scalar multiplication whose homothety and operand matched one kind
C16_HomothetyMatched ==
  /\ ScalarCall
  /\ heap[Len(last.pre) + 1].kind = "HomothetyOp"
  /\ Self.kind = "ProxFunc"
  /\ lookup_matches(mul_inferred("HomothetyOp", Self.kind, 1)) = {"Map"}

\* the kinds that add no capability to those of LinOp
linear_operator_kinds == {K \in LatticeKinds : IsSubclass(K, "LinOp")} \ {"LinFunc"}

\* no two kinds of the set ks have the same capability set
distinct_capability_sets(ks) ==
  \A K1 \in ks : \A K2 \in ks : properties(K1) = properties(K2) => K1 = K2

base_kinds_distinct == distinct_capability_sets(base_operators)

linear_operator_kinds_alike ==
  \A K \in linear_operator_kinds : properties(K) = {"apply", "jacobian", "adjoint"}

\* C17 as stated: no two kinds of the hierarchy have the same capability set;
\* the two operands of a sum or a composition that have the same capability set
\* are of the same kind.
C17_KindsDistinctAsStated ==
  (BinaryCall("add") \/ BinaryCall("mul"))
  => (properties(Self.kind) = properties(Other.kind) => Self.kind = Other.kind)

\* C17: no two of the seven base kinds have the same capability set, so two
\* operands of base kinds with the same capability set are of the same kind;
\* LinOp, SquareOp, NormalOp, SelfAdjointOp, PosDefOp, UnitOp, ProjOp and
\* OrthProjOp all have the capability set {apply, jacobian, adjoint}.
C17_BaseKindsDistinct ==
  /\ base_kinds_distinct
  /\ linear_operator_kinds_alike
  /\ ((BinaryCall("add") \/ BinaryCall("mul")) /\ {Self.kind, Other.kind} \subseteq base_operators)
       => (properties(Self.kind) = properties(Other.kind) => Self.kind = Other.kind)
  /\ ((BinaryCall("add") \/ BinaryCall("mul"))
        /\ {Self.kind, Other.kind} \subseteq linear_operator_kinds)
       => properties(Self.kind) = properties(Other.kind)

\* a sum whose operands are of two kinds with one capability set
C17_LinOpPlusSquareOp ==
  /\ BinaryCall("add")
  /\ Self.kind = "LinOp"
  /\ Other.kind = "SquareOp"
  /\ properties(Self.kind) = properties(Other.kind)
  /\ properties(Self.kind) = {"apply", "jacobian", "adjoint"}

\* the capabilities of kind K that the class provides by itself: single_valued
\* (SingledValued.single_valued) and the jacobian of LinOp and of Gradient
class_provided(K) ==
  {"single_valued"} \cup (IF K \in no_jacobian_kinds THEN {"jacobian"} ELSE {})

\* C18: every instance carries attached methods only for capabilities of its
\* kind's capability set, and the result of a sum or a composition has, for
\* every capability of its kind that both operands have, a method attached or
\* provided by its class.
C18_MethodsMatchKind ==
  /\ \A i \in 1..Len(heap) : \A m \in MethodNames :
       heap[i].attrs[m] # NoAttr => m \in properties(heap[i].kind)
  /\ ((BinaryCall("add") \/ BinaryCall("mul")) /\ Succeeded)
       => \A m \in properties(Result.kind) \cap properties(Self.kind) \cap properties(Other.kind) :
            Result.attrs[m] # NoAttr \/ m \in class_provided(Result.kind)

\* specialize returned a Func that carries an adjoint and a jacobian
C18_FuncWithAdjoint ==
  /\ last.op = "specialize"
  /\ Succeeded
  /\ Self.kind = "LinOp"
  /\ Result.kind = "Func"
  /\ {"adjoint", "jacobian"} \cap properties(Result.kind) = {}
  /\ Result.attrs["adjoint"] # NoAttr
  /\ Result.attrs["jacobian"] # NoAttr

\* the kinds of functionals
functional_kinds == {"Func", "ProxFunc", "DiffFunc", "LinFunc"}

\* the call made was K(shape) for a functional kind K
FunctionalConstructed == last.op = "construct" /\ last.o.name \in functional_kinds

\* C19: K(shape) for a functional kind K and a shape (n,) or (1, n) returns an
\* instance of shape (1, n), so of codim 1 and dim n; for a shape (c, n) with
\* c > 1 it raises ValueError.
C19_FunctionalShape ==
  FunctionalConstructed
  => IF Len(last.shape) = 2 /\ last.shape[1] > 1
     THEN last.exc = "ValueError"
     ELSE /\ Succeeded
          /\ Result.kind = last.o.name
          /\ Result.shape = <<1, last.shape[Len(last.shape)]>>

\* LinFunc((n,)) returned an instance whose shape is (n,)
C19_LinFuncShapeOfOneSize ==
  /\ last.op = "construct"
  /\ last.o.name = "LinFunc"
  /\ last.shape = <<2>>
  /\ Succeeded
  /\ Result.kind = "LinFunc"
  /\ Result.shape = <<2>>

\* the composition made is f * g for a differentiable functional f and a
\* differentiable map g whose shapes agree
DifferentiableComposition ==
  /\ BinaryCall("mul")
  /\ {"gradient", "single_valued"} \subseteq properties(Self.kind)
  /\ Self.shape[1] = 1
  /\ "jacobian" \in properties(Other.kind)
  /\ mul_shapes_ok(Self, Other)

\* C20: f * g for a differentiable functional f of shape (1,n) and a
\* differentiable map g of shape (n,m) succeeds; the result is a DiffFunc, a
\* LinFunc when both are linear, its capability set has gradient and
\* single_valued, and its gradient is g.jacobian(x).adjoint(f.gradient(g.apply(x))).
C20_ChainRule ==
  DifferentiableComposition
  => /\ Succeeded
     /\ Result.kind = IF "adjoint" \in properties(Self.kind) \cap properties(Other.kind)
                      THEN "LinFunc" ELSE "DiffFunc"
     /\ {"gradient", "single_valued"} \subseteq properties(Result.kind)
     /\ Result.attrs["gradient"] = Term("comp_gradient", 1, last.o.v, "")

\* the composition of a DiffFunc with a DiffMap raised in specialize
C20_DiffFuncTimesDiffMapRaises ==
  /\ DifferentiableComposition
  /\ Self.kind = "DiffFunc"
  /\ Other.kind = "DiffMap"
  /\ last.exc = "ValueError"
  /\ last.site = "specialize"

\* the call made was a specialize or a squeeze that returned a new instance of
\* a single-valued kind, cast from a source that has the jacobian capability
CastToSingleValued ==
  /\ last.op \in {"specialize", "squeeze", "squeeze_again"}
  /\ Succeeded
  /\ last.r > Len(last.pre)
  /\ "jacobian" \in properties(heap[last.s].kind)
  /\ "single_valued" \in properties(Result.kind)

\* C21: a specialize or squeeze that casts a source with the jacobian
\* capability to a single-valued kind returns an instance whose gradient is
\* synthesized from the source's jacobian, with no jacobian copied verbatim;
\* every other capability method of the source is the source's own.
C21_GradientSynthesized ==
  CastToSingleValued
  => /\ Result.attrs["gradient"] = Term("flat_jacobian", last.s, 0, "")
     /\ Result.attrs["jacobian"] = NoAttr
     /\ \A m \in (properties(heap[last.s].kind) \cap MethodNames) \ {"jacobian"} :
          Result.attrs[m] = getattr(last.pre, last.s, m)

\* squeeze cast a DiffMap to a DiffFunc that carries the DiffMap's jacobian and
\* no gradient
C21_JacobianCopiedVerbatim ==
  /\ CastToSingleValued
  /\ last.op = "squeeze"
  /\ heap[last.s].kind = "DiffMap"
  /\ Result.kind = "DiffFunc"
  /\ Result.attrs["jacobian"] = getattr(last.pre, last.s, "jacobian")
  /\ Result.attrs["gradient"] = NoAttr

\* C22: f.argshift(a) for a vector a whose length is f's domain size succeeds
\* and returns a new operator of f's kind whose apply is f.apply(x + a);
\* f.argscale(c) for a real c succeeds and is a new operator; a vector of
\* another length makes argshift raise ValueError.
C22_ShiftAndScale ==
  /\ (last.op = "argshift" /\ last.o.k = "array")
       => IF last.o.v = Self.shape[2]
          THEN /\ Succeeded
               /\ last.r > Len(last.pre)
               /\ Result.kind = Self.kind
               /\ Result.shape = Self.shape
               /\ Result.attrs["apply"].t = "argshifted"
          ELSE last.exc = "ValueError"
  /\ (last.op = "argscale" /\ IsReal(last.o))
       => /\ Succeeded
          /\ last.r > Len(last.pre)
          /\ Result.shape = Self.shape

\* argshift with a vector of the right length raised NameError after it had
\* built the new operator
C22_ArgshiftNameError ==
  /\ last.op = "argshift"
  /\ last.o.k = "array"
  /\ last.o.v = Self.shape[2]
  /\ last.exc = "NameError"
  /\ last.site = "argshift"
  /\ Len(heap) = Len(last.pre) + 1
  /\ heap[Len(heap)].kind = Self.kind

\* argscale with a real scalar raised NameError
C22_ArgscaleNameError ==
  /\ last.op = "argscale"
  /\ IsReal(last.o)
  /\ last.exc = "NameError"
  /\ last.site = "argscale"

====
